---------------------------- MODULE Spec2Model ----------------------------
(***************************************************************************)
(* The Kairos interactive installer (Itxaka/tui): the navigation           *)
(* controller of model.Update, the customization menu with its plugin       *)
(* driven page registration, and the installation process monitor.          *)
(*                                                                         *)
(* Page identifiers are Go strings; strings.Contains is computed on their   *)
(* characters (Chars).  Slices are 1-based sequences here, so the Go index  *)
(* i of a slice is position i+1; map[int]string cursorWithIds keeps its Go  *)
(* (0-based) keys.                                                          *)
(***************************************************************************)
EXTENDS Integers, Sequences, FiniteSets, Bags, TLC

VARIABLES
    pages,            \* mainModel.pages: the registry, <<[id, kind], ...>>
    currentPageID,    \* mainModel.currentPageID
    navigationStack,  \* mainModel.navigationStack
    options,          \* customizationPage.options (menu labels)
    cursorWithIds,    \* customizationPage.cursorWithIds (option index -> page id)
    cursor,           \* customizationPage.cursor
    quit,             \* tea.Quit was returned
    spawned,          \* number of installer goroutines started by installProcessPage.Init
    lastMsg,          \* the message the last Update handled
    initRan,          \* registry position (1-based) of the page whose Init the last
                      \* Update invoked, 0 when it invoked none
    cmds,             \* the messages the last Update returned as commands
    lastPlugin,       \* what runCustomizationPlugins returned to the last Update:
                      \* "none" (not called), "error", "empty" or "prompts"
    progress,         \* installProcessPage.progress
    step,             \* installProcessPage.step
    checks,           \* CheckInstallerMsg messages scheduled and not yet handled
    installer,        \* what the installer executable will do: whether it starts,
                      \* the lines it prints, how it exits
    proc,             \* the child process: "none", "running", "exited"
    pipe,             \* lines the child has printed that the scanner has not read
    waiter,           \* the goroutine of Init that starts and waits for the child:
                      \* "none", "start", "wait", "send" (blocked on p.output),
                      \* "sent", "closed" (p.done is closed)
    reader,           \* the goroutine that scans the output: "none", "scan",
                      \* "sendLine", "sendStep" (blocked on p.output), "exit"
    readerLine,       \* the line the reader is delivering
    optionsCursor,    \* installOptionsPage.cursor
    monitor,          \* what the install page has gone through: "NotStarted",
                      \* "Running" (Init ran), "Failed" (an error notification was
                      \* handled while Running), "Completed" (the completion
                      \* signal was observed while Running)
    inflight,         \* the bag of navigation messages returned by commands
                      \* and not yet delivered to Update
    disk,             \* mainModel.disk
    username,         \* mainModel.username (a string is its sequence of characters)
    password,         \* mainModel.password
    sshKeys,          \* mainModel.sshKeys
    extraFields,      \* mainModel.extraFields: "nil" or a map
    disks,            \* diskSelectionPage.disks (the names of the disks found)
    diskCursor,       \* diskSelectionPage.cursor
    confCursor,       \* confirmationPage.cursor
    userPage,         \* userPasswordPage: focusedField, usernameInput, passwordInput
    sshPage,          \* sshKeysPage: mode, cursor, sshKeys, keyInput
    crashed,          \* a handler panicked
    confirmedYes,     \* enter was handled by the confirmation page with
                      \* "Yes, continue" selected
    received,         \* the step notifications of the reader goroutine that
                      \* Update has received from p.output, oldest first
    config            \* the InstallConfig built by NewInstallConfig, once built

ghostVars == <<lastMsg, initRan, cmds, lastPlugin>>
goroutineVars == <<installer, proc, pipe, waiter, reader, readerLine>>
uiVars == <<pages, currentPageID, navigationStack, options, cursorWithIds, cursor,
            quit, spawned, progress, step, checks, optionsCursor, monitor, inflight,
            disk, username, password, sshKeys, extraFields, disks, diskCursor,
            confCursor, userPage, sshPage, crashed, confirmedYes, received, config>>
sessionVars == <<disk, username, password, sshKeys, extraFields>>
formVars == <<disks, diskCursor, confCursor, userPage, sshPage, crashed, confirmedYes>>
vars == <<pages, currentPageID, navigationStack, options, cursorWithIds, cursor,
          quit, spawned, lastMsg, initRan, cmds, lastPlugin, progress, step,
          checks, installer, proc, pipe, waiter, reader, readerLine,
          optionsCursor, monitor, inflight, disk, username, password, sshKeys,
          extraFields, disks, diskCursor, confCursor, userPage, sshPage, crashed,
          confirmedYes, received, config>>

-----------------------------------------------------------------------------
(* Bounds of the model *)

MaxStack == 4      \* navigation stack depth explored
MaxPages == 8      \* registry length explored (7 static pages + dynamic ones)
MaxPrompts == 2    \* length of a plugin descriptor list
MaxSpawn == 2      \* installer goroutines started
MaxInflight == 2   \* navigation messages in flight
MaxLines == 2      \* lines the installer prints
MaxInput == 1      \* characters typed into a text input
MaxKeys == 2       \* SSH keys added
MaxFormKeys == 1   \* SSH keys added while the other forms are filled in too

-----------------------------------------------------------------------------
(* Strings *)

\* The characters of every string the model compares with strings.Contains.
Chars(s) ==
    CASE s = "" -> <<>>
      [] s = "disk_selection" ->
            <<"d","i","s","k","_","s","e","l","e","c","t","i","o","n">>
      [] s = "confirmation" ->
            <<"c","o","n","f","i","r","m","a","t","i","o","n">>
      [] s = "install_options" ->
            <<"i","n","s","t","a","l","l","_","o","p","t","i","o","n","s">>
      [] s = "customization" ->
            <<"c","u","s","t","o","m","i","z","a","t","i","o","n">>
      [] s = "user_password" ->
            <<"u","s","e","r","_","p","a","s","s","w","o","r","d">>
      [] s = "ssh_keys" -> <<"s","s","h","_","k","e","y","s">>
      [] s = "install_process" ->
            <<"i","n","s","t","a","l","l","_","p","r","o","c","e","s","s">>
      [] s = "user" -> <<"u","s","e","r">>
      [] s = "x.y" -> <<"x",".","y">>
      [] s = "x.z" -> <<"x",".","z">>
      [] s = "x" -> <<"x">>
      [] s = "w" -> <<"w">>
      [] s = "nope" -> <<"n","o","p","e">>

\* b occurs in a as a contiguous run.
SeqContains(a, b) ==
    \E k \in 0..(Len(a) - Len(b)) :
        \A j \in 1..Len(b) : a[k + j] = b[j]

\* strings.Contains(s, substr) on the strings of Chars.
StrContains(s, substr) == SeqContains(Chars(s), Chars(substr))

\* The strings of the model, and strings.Contains on them, computed once.
Strings ==
    { "", "disk_selection", "confirmation", "install_options", "customization",
      "user_password", "ssh_keys", "install_process", "user", "x.y", "x.z", "nope" }

ContainsTable == {p \in Strings \X Strings : StrContains(p[1], p[2])}

Contains(s, substr) == <<s, substr>> \in ContainsTable

-----------------------------------------------------------------------------
(* The page registry *)

\* A registered page: its ID() and its Go type.
Page(id, kind) == [id |-> id, kind |-> kind]

\* initialModel: the seven static pages, the first one current, an empty stack.
initialPages ==
    << Page("disk_selection", "diskSelectionPage"),
       Page("confirmation", "confirmationPage"),
       Page("install_options", "installOptionsPage"),
       Page("customization", "customizationPage"),
       Page("user_password", "userPasswordPage"),
       Page("ssh_keys", "sshKeysPage"),
       Page("install_process", "installProcessPage") >>

\* The loop `for i, p := range mainModel.pages { if p.ID() == id ... }`: the
\* position of the first page whose ID() is id, 0 when there is none (Go: -1).
PageIndex(ps, id) ==
    IF \E i \in 1..Len(ps) : ps[i].id = id
    THEN CHOOSE i \in 1..Len(ps) :
            /\ ps[i].id = id
            /\ \A j \in 1..(i - 1) : ps[j].id # id
    ELSE 0

-----------------------------------------------------------------------------
(* The customization page *)

\* A YAMLPrompt, reduced to the fields the pages read: YAMLSection, Bool and
\* IfEmpty (a string typed or preset is its sequence of characters).
PromptIfEmpty(section, bool, ifEmpty) ==
    [YAMLSection |-> section, Bool |-> bool, IfEmpty |-> ifEmpty]

\* A YAMLPrompt without an IfEmpty value.
Prompt(section, bool) == PromptIfEmpty(section, bool, <<>>)

idFromSection(section) == section.YAMLSection

\* The page a text prompt gets; its ID() is idFromSection(g.section).  The
\* text input starts empty.
newGenericQuestionPage(section) ==
    [id |-> idFromSection(section), kind |-> "genericQuestionPage",
     section |-> section, genericInput |-> <<>>]

\* The page a yes/no prompt gets.
newGenericBoolPage(section) == Page(idFromSection(section), "genericBoolPage")

\* fmt.Sprintf("Configure %s", prompt.YAMLSection)
ConfigureLabel(section) == <<"Configure ", section>>

\* newCustomizationPage: the three static menu entries.
newCustomizationOptions ==
    << <<"Finish Customization">>, <<"User & Password">>, <<"SSH Keys">> >>

newCustomizationCursorWithIds ==
    [k \in {0, 1, 2} |->
        CASE k = 0 -> "install_process"
          [] k = 1 -> "user_password"
          [] k = 2 -> "ssh_keys"]

\* checkPageExists: some value of the menu map contains pageID as a substring.
checkPageExists(pageID, opts) ==
    \E k \in DOMAIN opts : Contains(opts[k], pageID)

\* m[k] = v on a Go map.
MapSet(m, k, v) == [j \in (DOMAIN m) \cup {k} |-> IF j = k THEN v ELSE m[j]]

\* One iteration of the loop of customizationPage.Init, for yaML[i] (i is the
\* Go index); st holds mainModel.pages, p.options and p.cursorWithIds.
InitPrompt(st, prompt, i, startIdx) ==
    IF checkPageExists(idFromSection(prompt), st.cursorWithIds)
    THEN st
    ELSE LET optIdx == startIdx + i
             pageID == idFromSection(prompt)
             newPage == IF prompt.Bool = FALSE
                        THEN newGenericQuestionPage(prompt)
                        ELSE newGenericBoolPage(prompt)
         IN  [pages |-> Append(st.pages, newPage),
              options |-> Append(st.options, ConfigureLabel(prompt.YAMLSection)),
              cursorWithIds |-> MapSet(st.cursorWithIds, optIdx, pageID)]

RECURSIVE InitLoop(_, _, _, _)
\* for i, prompt := range yaML, from Go index i on.
InitLoop(st, yaML, i, startIdx) ==
    IF i >= Len(yaML)
    THEN st
    ELSE InitLoop(InitPrompt(st, yaML[i + 1], i, startIdx), yaML, i + 1, startIdx)

\* customizationPage.Init as it would be without the `if err != nil` return.
customizationInitIgnoringErr(st, resp) ==
    IF Len(resp.yaML) > 0
    THEN InitLoop(st, resp.yaML, 0, Len(st.options))
    ELSE st

\* customizationPage.Init on the response resp = [yaML, err] of
\* runCustomizationPlugins.
customizationInit(st, resp) ==
    IF resp.err
    THEN st
    ELSE IF Len(resp.yaML) > 0
         THEN InitLoop(st, resp.yaML, 0, Len(st.options))
         ELSE st

\* The messages of the event loop.
NoMsg == [type |-> "none", arg |-> ""]
KeyMsg(k) == [type |-> "key", arg |-> k]
NextPageMsg == [type |-> "next", arg |-> ""]
GoToPageMsg(id) == [type |-> "goto", arg |-> id]
CheckInstallerMsg == [type |-> "check", arg |-> ""]

\* newInstallOptionsPage: "Start Install", "Customize Further".
installOptions == << <<"Start Install">>, <<"Customize Further">> >>

\* installOptionsPage.Update: the new cursor and the command returned.
installOptionsUpdate(cur, msg) ==
    IF msg.type # "key"
    THEN [cursor |-> cur, cmd |-> NoMsg]
    ELSE CASE msg.arg \in {"up", "k"} ->
                [cursor |-> IF cur > 0 THEN cur - 1 ELSE cur, cmd |-> NoMsg]
           [] msg.arg \in {"down", "j"} ->
                [cursor |-> IF cur < Len(installOptions) - 1 THEN cur + 1 ELSE cur,
                 cmd |-> NoMsg]
           [] msg.arg = "enter" ->
                [cursor |-> cur,
                 cmd |-> IF cur = 0 THEN GoToPageMsg("install_process")
                         ELSE GoToPageMsg("customization")]
           [] OTHER -> [cursor |-> cur, cmd |-> NoMsg]

\* customizationPage.Update on a key: the new cursor and the command returned.
customizationUpdate(cur, opts, ids, msg) ==
    IF msg.type # "key"
    THEN [cursor |-> cur, cmd |-> NoMsg]
    ELSE CASE msg.arg \in {"up", "k"} ->
                [cursor |-> IF cur > 0 THEN cur - 1 ELSE cur, cmd |-> NoMsg]
           [] msg.arg \in {"down", "j"} ->
                [cursor |-> IF cur < Len(opts) - 1 THEN cur + 1 ELSE cur, cmd |-> NoMsg]
           [] msg.arg = "enter" ->
                [cursor |-> cur,
                 cmd |-> IF cur \in DOMAIN ids THEN GoToPageMsg(ids[cur]) ELSE NoMsg]
           [] OTHER -> [cursor |-> cur, cmd |-> NoMsg]

-----------------------------------------------------------------------------
(* The install process page *)

\* The installer's output lines, the messages on p.output and p.step are strings
\* that the code cuts and joins; they are sequences of tokens here: "a" + "b" is
\* <<"a">> \o <<"b">>, and a keyword occurs in a line when its token does.

HasPrefix(str, prefix) ==
    Len(str) >= Len(prefix) /\ SubSeq(str, 1, Len(prefix)) = prefix

TrimPrefix(str, prefix) ==
    IF HasPrefix(str, prefix) THEN SubSeq(str, Len(prefix) + 1, Len(str)) ELSE str

StepPrefix == <<"STEP:">>
ErrorPrefix == <<"ERROR:">>

\* newInstallProcessPage: the fixed step labels.
steps ==
    << <<"Preparing installation...">>, <<"Partitioning disk...">>,
       <<"Formatting partitions...">>, <<"Installing base system...">>,
       <<"Configuring bootloader...">>, <<"Finalizing installation...">>,
       <<"Installation complete!">> >>

\* len(installPage.steps)-1 as a Go index; progress is a Go index into steps.
LastStep == Len(steps) - 1

\* The if / else-if chain of the reader: keyword, message sent when the line
\* contains it; the first keyword found decides.
stepKeywords ==
    << [keyword |-> <<"Partitioning">>, msg |-> StepPrefix \o steps[2]],
       [keyword |-> <<"Formatting">>, msg |-> StepPrefix \o steps[3]],
       [keyword |-> <<"Installing base system">>, msg |-> StepPrefix \o steps[4]],
       [keyword |-> <<"Configuring bootloader">>, msg |-> StepPrefix \o steps[5]],
       [keyword |-> <<"Finalizing">>, msg |-> StepPrefix \o <<"Finalizing installation...">>],
       [keyword |-> <<"Installation complete">>, msg |-> StepPrefix \o steps[7]],
       [keyword |-> <<"Success">>, msg |-> StepPrefix \o steps[7]] >>

\* The chain as it would be if a later test overrode an earlier one (a sequence
\* of plain ifs assigning the notification, the last match sent).
classifyLineLastMatch(line) ==
    LET hits == {k \in 1..Len(stepKeywords) : SeqContains(line, stepKeywords[k].keyword)}
    IN  IF hits = {} THEN <<>>
        ELSE stepKeywords[CHOOSE k \in hits : \A j \in hits : k >= j].msg

\* The message the reader sends after a line, <<>> when no keyword is in it.
classifyLine(line) ==
    LET hits == {k \in 1..Len(stepKeywords) : SeqContains(line, stepKeywords[k].keyword)}
    IN  IF hits = {} THEN <<>>
        ELSE stepKeywords[CHOOSE k \in hits : \A j \in hits : k <= j].msg

\* What the waiter sends once cmd.Wait has returned.
waiterMessage(exit) ==
    IF exit = "fail" THEN ErrorPrefix \o <<"exit status 1">>
    ELSE StepPrefix \o <<"Installation complete!">>

\* cmd.Wait has returned: it closed the read ends of the child's pipes.
PipesClosed(w) == w \in {"send", "sent", "closed"}

\* The cases of the select in Update that can proceed: a receive from p.output
\* for each goroutine blocked sending on it, the receive from p.done once it is
\* closed, and default when no other case can.
SelectReady(m) ==
    LET ready == (IF m.reader \in {"sendLine", "sendStep"} THEN {"reader"} ELSE {})
                 \cup (IF m.waiter = "send" THEN {"waiter"} ELSE {})
                 \cup (IF m.waiter = "closed" THEN {"done"} ELSE {})
    IN  IF ready = {} THEN {"default"} ELSE ready

\* The body of the output case as it would be if it stored the position of the
\* step counted from one.
handleOutputCountingFromOne(m, output) ==
    IF HasPrefix(output, StepPrefix)
    THEN LET stepName == TrimPrefix(output, StepPrefix)
             found == {i \in 1..Len(steps) : steps[i] = stepName}
         IN  [(IF found = {} THEN m
               ELSE [m EXCEPT !.progress = CHOOSE i \in found : TRUE,
                              !.step = stepName])
              EXCEPT !.cmds = @ \cup {[type |-> "check", arg |-> ""]},
                     !.checks = @ + 1]
    ELSE IF HasPrefix(output, ErrorPrefix)
         THEN [m EXCEPT !.step = <<"Error: ">> \o TrimPrefix(output, ErrorPrefix),
                        !.monitor = IF @ = "Running" THEN "Failed" ELSE @]
         ELSE [m EXCEPT !.cmds = @ \cup {[type |-> "check", arg |-> ""]},
                        !.checks = @ + 1]

\* The body of `case output, ok := <-p.output` for the received string.
handleOutput(m, output) ==
    IF HasPrefix(output, StepPrefix)
    THEN LET stepName == TrimPrefix(output, StepPrefix)
             found == {i \in 1..Len(steps) : steps[i] = stepName}
         IN  [(IF found = {} THEN m
               ELSE [m EXCEPT !.progress = (CHOOSE i \in found : TRUE) - 1,
                              !.step = stepName])
              EXCEPT !.cmds = @ \cup {[type |-> "check", arg |-> ""]},
                     !.checks = @ + 1]
    ELSE IF HasPrefix(output, ErrorPrefix)
         THEN [m EXCEPT !.step = <<"Error: ">> \o TrimPrefix(output, ErrorPrefix),
                        !.monitor = IF @ = "Running" THEN "Failed" ELSE @]
         ELSE [m EXCEPT !.cmds = @ \cup {[type |-> "check", arg |-> ""]},
                        !.checks = @ + 1]

\* installProcessPage.Update on CheckInstallerMsg, the select taking case sel.
installUpdate(m, sel) ==
    LET handled == m
    IN  CASE sel = "reader" ->
                IF m.reader = "sendLine"
                THEN handleOutput(
                        [handled EXCEPT
                            !.reader = IF classifyLine(m.readerLine) = <<>>
                                       THEN "scan" ELSE "sendStep"],
                        m.readerLine)
                ELSE handleOutput(
                        [handled EXCEPT
                            !.reader = "scan",
                            !.received = Append(@, classifyLine(m.readerLine))],
                        classifyLine(m.readerLine))
          [] sel = "waiter" ->
                handleOutput([handled EXCEPT !.waiter = "sent"],
                             waiterMessage(m.installer.exit))
          [] sel = "done" ->
                [handled EXCEPT !.progress = Len(steps) - 1,
                                !.step = steps[Len(steps)],
                                !.monitor = IF @ = "Running" THEN "Completed" ELSE @]
          [] OTHER ->
                [handled EXCEPT !.cmds = @ \cup {[type |-> "check", arg |-> ""]},
                                !.checks = @ + 1]

-----------------------------------------------------------------------------
(* The pages that write the operator's choices into mainModel *)

\* A handler's result with cmd among the commands it returns.
Returning(m, cmd) == [m EXCEPT !.cmds = @ \cup {cmd}]

\* The character keys the operator types into text inputs.
TypedChars == {"d", "v"}

\* textinput.Model.Update(msg): a character key is appended to the value,
\* backspace removes its last character, anything else leaves the value.
textinputUpdate(value, msg) ==
    IF msg.type # "key" THEN value
    ELSE IF msg.arg \in TypedChars THEN Append(value, msg.arg)
    ELSE IF msg.arg = "backspace" /\ Len(value) > 0
         THEN SubSeq(value, 1, Len(value) - 1)
    ELSE value

\* diskSelectionPage.Update: the cursor moves within the list; enter stores the
\* name under the cursor, if there is one, and asks for the confirmation page.
diskSelectionUpdate(m, msg) ==
    IF msg.type # "key" THEN m
    ELSE CASE msg.arg \in {"up", "k"} ->
                [m EXCEPT !.diskCursor = IF @ > 0 THEN @ - 1 ELSE @]
           [] msg.arg \in {"down", "j"} ->
                [m EXCEPT !.diskCursor = IF @ < Len(m.disks) - 1 THEN @ + 1 ELSE @]
           [] msg.arg = "enter" ->
                Returning(
                    [m EXCEPT !.disk = IF m.diskCursor >= 0 /\ m.diskCursor < Len(m.disks)
                                       THEN m.disks[m.diskCursor + 1] ELSE @],
                    GoToPageMsg("confirmation"))
           [] OTHER -> m

\* The confirmation page as it would be if "No, go back" went on to the
\* install options as well.
confirmationUpdateNoContinues(m, msg) ==
    IF msg.type # "key" THEN m
    ELSE CASE msg.arg \in {"up", "k"} -> [m EXCEPT !.confCursor = 0]
           [] msg.arg \in {"down", "j"} -> [m EXCEPT !.confCursor = 1]
           [] msg.arg = "enter" ->
                IF m.confCursor = 0
                THEN Returning([m EXCEPT !.confirmedYes = TRUE],
                               GoToPageMsg("install_options"))
                ELSE Returning([m EXCEPT !.disk = ""], GoToPageMsg("install_options"))
           [] OTHER -> m

\* confirmationPage.Update: up selects "Yes, continue", down "No, go back";
\* enter on Yes asks for the install options, enter on No clears mainModel.disk
\* and asks for the disk selection.
confirmationUpdate(m, msg) ==
    IF msg.type # "key" THEN m
    ELSE CASE msg.arg \in {"up", "k"} -> [m EXCEPT !.confCursor = 0]
           [] msg.arg \in {"down", "j"} -> [m EXCEPT !.confCursor = 1]
           [] msg.arg = "enter" ->
                IF m.confCursor = 0
                THEN Returning([m EXCEPT !.confirmedYes = TRUE],
                               GoToPageMsg("install_options"))
                ELSE Returning([m EXCEPT !.disk = ""], GoToPageMsg("disk_selection"))
           [] OTHER -> m

\* The credential page as it would be if enter asked for a user name only.
userPasswordUpdateNameOnly(m, msg) ==
    LET p == m.userPage
        typed == IF p.focusedField = 0
                 THEN [m EXCEPT !.userPage.usernameInput = textinputUpdate(@, msg)]
                 ELSE [m EXCEPT !.userPage.passwordInput = textinputUpdate(@, msg)]
    IN  IF msg.type # "key" THEN typed
        ELSE CASE msg.arg = "tab" ->
                    Returning([m EXCEPT !.userPage.focusedField = 1 - @],
                              [type |-> "blink", arg |-> ""])
               [] msg.arg = "enter" ->
                    IF p.usernameInput # <<>>
                    THEN Returning([m EXCEPT !.userPage.username = p.usernameInput,
                                             !.username = p.usernameInput,
                                             !.userPage.password = p.passwordInput,
                                             !.password = p.passwordInput],
                                   GoToPageMsg("customization"))
                    ELSE typed
               [] msg.arg = "esc" -> Returning(m, GoToPageMsg("customization"))
               [] OTHER -> typed

\* userPasswordPage.Update: tab switches the focused field; enter with both
\* inputs non-empty stores them and asks for the customization menu; esc asks
\* for the menu; every other message goes to the focused input.
userPasswordUpdate(m, msg) ==
    LET p == m.userPage
        typed == IF p.focusedField = 0
                 THEN [m EXCEPT !.userPage.usernameInput = textinputUpdate(@, msg)]
                 ELSE [m EXCEPT !.userPage.passwordInput = textinputUpdate(@, msg)]
    IN  IF msg.type # "key" THEN typed
        ELSE CASE msg.arg = "tab" ->
                    Returning([m EXCEPT !.userPage.focusedField = 1 - @],
                              [type |-> "blink", arg |-> ""])
               [] msg.arg = "enter" ->
                    IF p.usernameInput # <<>> /\ p.passwordInput # <<>>
                    THEN Returning([m EXCEPT !.userPage.username = p.usernameInput,
                                             !.username = p.usernameInput,
                                             !.userPage.password = p.passwordInput,
                                             !.password = p.passwordInput],
                                   GoToPageMsg("customization"))
                    ELSE typed
               [] msg.arg = "esc" -> Returning(m, GoToPageMsg("customization"))
               [] OTHER -> typed

\* append(s[:i], s[i+1:]...): the slice without its element of Go index i.
RemoveAt(s, i) == SubSeq(s, 1, i) \o SubSeq(s, i + 2, Len(s))

\* The SSH keys page as it would be if d removed the oldest key of
\* mainModel.sshKeys, whichever key the cursor is on.
sshKeysUpdateDeletingOldest(m, msg) ==
    LET p == m.sshPage
    IN  IF msg.type # "key" THEN m
        ELSE IF p.mode = 0
        THEN CASE msg.arg \in {"up", "k"} ->
                    [m EXCEPT !.sshPage.cursor = IF @ > 0 THEN @ - 1 ELSE @]
               [] msg.arg \in {"down", "j"} ->
                    [m EXCEPT !.sshPage.cursor = IF @ < Len(p.sshKeys) THEN @ + 1 ELSE @]
               [] msg.arg = "d" ->
                    IF p.cursor < Len(p.sshKeys)
                    THEN LET kept == RemoveAt(p.sshKeys, p.cursor)
                         IN  [m EXCEPT !.sshPage.sshKeys = kept,
                                       !.sshKeys = RemoveAt(@, 0),
                                       !.sshPage.cursor =
                                            IF p.cursor >= Len(kept) /\ p.cursor > 0
                                            THEN p.cursor - 1 ELSE p.cursor]
                    ELSE m
               [] msg.arg \in {"a", "enter"} ->
                    IF p.cursor = Len(p.sshKeys)
                    THEN Returning([m EXCEPT !.sshPage.mode = 1],
                                   [type |-> "blink", arg |-> ""])
                    ELSE m
               [] msg.arg = "esc" -> Returning(m, GoToPageMsg("customization"))
               [] OTHER -> m
        ELSE CASE msg.arg = "esc" ->
                    Returning([m EXCEPT !.sshPage.mode = 0, !.sshPage.keyInput = <<>>],
                              GoToPageMsg("customization"))
               [] msg.arg = "enter" /\ p.keyInput # <<>> ->
                    Returning([m EXCEPT !.sshPage.sshKeys = Append(@, p.keyInput),
                                        !.sshKeys = Append(@, p.keyInput),
                                        !.sshPage.mode = 0,
                                        !.sshPage.keyInput = <<>>,
                                        !.sshPage.cursor = Len(p.sshKeys) + 1],
                              GoToPageMsg("customization"))
               [] OTHER -> [m EXCEPT !.sshPage.keyInput = textinputUpdate(@, msg)]

\* sshKeysPage.Update.  In the list view (mode 0) the cursor moves over the keys
\* and the "Add new key" entry below them, d removes the key under the cursor
\* from the page's list and from mainModel.sshKeys, a or enter on the last
\* entry opens the input.  In the input view (mode 1) esc drops the text,
\* enter with a non-empty text appends it to both lists, and both ask for the
\* customization menu; other keys go to the input.
sshKeysUpdate(m, msg) ==
    LET p == m.sshPage
    IN  IF msg.type # "key" THEN m
        ELSE IF p.mode = 0
        THEN CASE msg.arg \in {"up", "k"} ->
                    [m EXCEPT !.sshPage.cursor = IF @ > 0 THEN @ - 1 ELSE @]
               [] msg.arg \in {"down", "j"} ->
                    [m EXCEPT !.sshPage.cursor = IF @ < Len(p.sshKeys) THEN @ + 1 ELSE @]
               [] msg.arg = "d" ->
                    IF p.cursor < Len(p.sshKeys)
                    THEN LET kept == RemoveAt(p.sshKeys, p.cursor)
                         IN  [m EXCEPT !.sshPage.sshKeys = kept,
                                       !.sshKeys = RemoveAt(@, p.cursor),
                                       !.sshPage.cursor =
                                            IF p.cursor >= Len(kept) /\ p.cursor > 0
                                            THEN p.cursor - 1 ELSE p.cursor]
                    ELSE m
               [] msg.arg \in {"a", "enter"} ->
                    IF p.cursor = Len(p.sshKeys)
                    THEN Returning([m EXCEPT !.sshPage.mode = 1],
                                   [type |-> "blink", arg |-> ""])
                    ELSE m
               [] msg.arg = "esc" -> Returning(m, GoToPageMsg("customization"))
               [] OTHER -> m
        ELSE CASE msg.arg = "esc" ->
                    Returning([m EXCEPT !.sshPage.mode = 0, !.sshPage.keyInput = <<>>],
                              GoToPageMsg("customization"))
               [] msg.arg = "enter" /\ p.keyInput # <<>> ->
                    Returning([m EXCEPT !.sshPage.sshKeys = Append(@, p.keyInput),
                                        !.sshKeys = Append(@, p.keyInput),
                                        !.sshPage.mode = 0,
                                        !.sshPage.keyInput = <<>>,
                                        !.sshPage.cursor = Len(p.sshKeys) + 1],
                              GoToPageMsg("customization"))
               [] OTHER -> [m EXCEPT !.sshPage.keyInput = textinputUpdate(@, msg)]

\* Go maps of mainModel.extraFields: the nil map of a model that never made
\* one, a map made with make, a string stored in a map.
NilMap == [nil |-> TRUE, entries |-> <<>>]
MakeMap == [nil |-> FALSE, entries |-> <<>>]
StringValue(v) == [str |-> v]
IsMap(v) == "entries" \in DOMAIN v

RECURSIVE SplitChars(_, _)
\* strings.Split on the characters cs: the pieces between the separators.
SplitChars(cs, sep) ==
    IF \E i \in 1..Len(cs) : cs[i] = sep
    THEN LET i == CHOOSE j \in 1..Len(cs) :
                      cs[j] = sep /\ \A h \in 1..(j - 1) : cs[h] # sep
         IN  <<SubSeq(cs, 1, i - 1)>> \o SplitChars(SubSeq(cs, i + 1, Len(cs)), sep)
    ELSE <<cs>>

RECURSIVE setSections(_, _, _)
\* The loop over sections of genericQuestionPage.Update from currentMap on: the
\* last section gets the value; a section before it is followed into the map it
\* holds, or into a new map made in its place when it holds none.
setSections(currentMap, sections, value) ==
    LET section == Head(sections)
        held == currentMap.entries
        nextMap == IF section \in DOMAIN held /\ IsMap(held[section])
                   THEN held[section] ELSE MakeMap
    IN  IF Len(sections) = 1
        THEN [currentMap EXCEPT !.entries = MapSet(@, section, StringValue(value))]
        ELSE [currentMap EXCEPT
                !.entries = MapSet(@, section, setSections(nextMap, Tail(sections), value))]

\* genericQuestionPage.Update of the page at registry position idx.  enter
\* takes IfEmpty for an empty input, and with a non-empty value stores it in
\* mainModel.extraFields under the key path of the section and asks for the
\* customization menu; the assignment to an entry of a nil map panics.  esc
\* asks for the menu.  No other key reaches the text input.
genericQuestionUpdate(m, idx, msg) ==
    LET g == m.pages[idx]
        value == IF g.genericInput = <<>> /\ g.section.IfEmpty # <<>>
                 THEN g.section.IfEmpty ELSE g.genericInput
        sections == SplitChars(Chars(g.section.YAMLSection), ".")
    IN  IF msg = KeyMsg("enter")
        THEN IF value # <<>>
             THEN IF m.extraFields.nil
                  THEN [m EXCEPT !.crashed = TRUE]
                  ELSE Returning(
                           [m EXCEPT !.pages[idx].genericInput = value,
                                     !.extraFields = setSections(@, sections, value)],
                           GoToPageMsg("customization"))
             ELSE m
        ELSE IF msg = KeyMsg("esc")
        THEN Returning(m, GoToPageMsg("customization"))
        ELSE m

\* No InstallConfig has been built.
NoConfig == [Install |-> <<>>, Stages |-> <<>>, ExtraFields |-> NilMap, built |-> FALSE]

\* The stage entry NewInstallConfig writes for the user kairos.
userStage(m) ==
    << [name |-> "Set user and password",
        users |-> [kairos |-> [passwd |-> m.password,
                               groups |-> <<"admin">>,
                               ssh_authorized_keys |-> m.sshKeys]]] >>

\* NewInstallConfig as it would be without the test for SSH keys.
NewInstallConfigInitramfsOnly(m) ==
    IF m.username # <<>> /\ m.password # <<>>
    THEN [Install |-> [device |-> m.disk],
          Stages |-> ("initramfs" :> userStage(m)),
          ExtraFields |-> m.extraFields, built |-> TRUE]
    ELSE [Install |-> [device |-> m.disk, nousers |-> TRUE],
          Stages |-> <<>>,
          ExtraFields |-> m.extraFields, built |-> TRUE]

\* NewInstallConfig(m): install.device is the disk; with a user name and a
\* password the user block goes under the stage "network" when there are SSH
\* keys and under "initramfs" otherwise; without them install.nousers is set.
\* The extra fields are taken over as they are.
NewInstallConfig(m) ==
    LET stage == IF Len(m.sshKeys) > 0 THEN "network" ELSE "initramfs"
    IN  IF m.username # <<>> /\ m.password # <<>>
        THEN [Install |-> [device |-> m.disk],
              Stages |-> (stage :> userStage(m)),
              ExtraFields |-> m.extraFields, built |-> TRUE]
        ELSE [Install |-> [device |-> m.disk, nousers |-> TRUE],
              Stages |-> <<>>,
              ExtraFields |-> m.extraFields, built |-> TRUE]

-----------------------------------------------------------------------------
(* The top-level controller: model.Update *)

\* The program state as one record (mainModel and the page structs it points to),
\* with what the handler reports: cmds, initRan, lastPlugin.
State ==
    [pages |-> pages, currentPageID |-> currentPageID,
     navigationStack |-> navigationStack,
     options |-> options, cursorWithIds |-> cursorWithIds, cursor |-> cursor,
     quit |-> quit, spawned |-> spawned,
     progress |-> progress, step |-> step, checks |-> checks,
     installer |-> installer, proc |-> proc, pipe |-> pipe,
     waiter |-> waiter, reader |-> reader, readerLine |-> readerLine,
     optionsCursor |-> optionsCursor, monitor |-> monitor,
     disk |-> disk, username |-> username, password |-> password,
     sshKeys |-> sshKeys, extraFields |-> extraFields,
     disks |-> disks, diskCursor |-> diskCursor, confCursor |-> confCursor,
     userPage |-> userPage, sshPage |-> sshPage,
     crashed |-> crashed, confirmedYes |-> confirmedYes, received |-> received,
     cmds |-> {}, initRan |-> 0, lastPlugin |-> "none"]

PluginClass(resp) ==
    IF resp.err THEN "error"
    ELSE IF Len(resp.yaML) = 0 THEN "empty" ELSE "prompts"

\* pages[idx].Init(): the state after it, with the command it returns added to cmds.
\*   customizationPage.Init  registers the prompts of resp;
\*   installProcessPage.Init starts the installer goroutine and returns the
\*                           first CheckInstallerMsg (the goroutines of the
\*                           first installer are followed, later ones counted);
\*   userPasswordPage, genericQuestionPage return textinput.Blink;
\*   the other pages return nil.
pageInit(m, idx, resp) ==
    LET kind == m.pages[idx].kind
        ran == [m EXCEPT !.initRan = idx]
    IN  CASE kind = "customizationPage" ->
                LET st == customizationInit(
                              [pages |-> m.pages, options |-> m.options,
                               cursorWithIds |-> m.cursorWithIds], resp)
                IN  [ran EXCEPT !.pages = st.pages, !.options = st.options,
                                !.cursorWithIds = st.cursorWithIds,
                                !.lastPlugin = PluginClass(resp)]
          [] kind = "installProcessPage" ->
                [ran EXCEPT !.spawned = @ + 1,
                            !.waiter = IF m.spawned = 0 THEN "start" ELSE @,
                            !.monitor = IF @ = "NotStarted" THEN "Running" ELSE @,
                            !.cmds = @ \cup {CheckInstallerMsg},
                            !.checks = @ + 1]
          [] kind \in {"userPasswordPage", "genericQuestionPage"} ->
                [ran EXCEPT !.cmds = @ \cup {[type |-> "blink", arg |-> ""]}]
          [] OTHER -> ran

\* The esc case as it would be if it left the stack as it is.
escBackKeepingStack(m, currentIdx, resp) ==
    pageInit([m EXCEPT !.currentPageID = m.navigationStack[Len(m.navigationStack)]],
             currentIdx, resp)

\* case "esc": with a non-empty stack, pop its top into currentPageID and return
\* the Init of mainModel.pages[currentIdx], currentIdx being the index found on
\* entry of Update.
escBack(m, currentIdx, resp) ==
    LET n == Len(m.navigationStack)
        popped == [m EXCEPT !.currentPageID = m.navigationStack[n],
                            !.navigationStack = SubSeq(m.navigationStack, 1, n - 1)]
    IN  pageInit(popped, currentIdx, resp)

\* NextPageMsg with currentIdx < len(pages)-1: push, move to the next page of the
\* registry, run its Init.
advance(m, currentIdx, resp) ==
    LET moved == [m EXCEPT
                    !.navigationStack = Append(@, m.currentPageID),
                    !.currentPageID = m.pages[currentIdx + 1].id]
    IN  pageInit(moved, currentIdx + 1, resp)

\* The GoToPageMsg case as it would be if it pushed before looking the page up.
goToPagePushingFirst(m, PageID, resp) ==
    LET i == PageIndex(m.pages, PageID)
        pushed == [m EXCEPT !.navigationStack = Append(@, m.currentPageID)]
    IN  IF PageID # "" /\ i # 0
        THEN pageInit([pushed EXCEPT !.currentPageID = PageID], i, resp)
        ELSE pushed

\* The GoToPageMsg case as it would be if it did not look the page up.
goToPageUnchecked(m, PageID, resp) ==
    LET i == PageIndex(m.pages, PageID)
        moved == [m EXCEPT !.navigationStack = Append(@, m.currentPageID),
                           !.currentPageID = PageID]
    IN  IF PageID = "" THEN m
        ELSE IF i # 0 THEN pageInit(moved, i, resp)
        ELSE moved

\* GoToPageMsg: with a non-empty PageID that some page has, push, make it current
\* and run the Init of the first page that has it; otherwise only log.
goToPage(m, PageID, resp) ==
    LET i == PageIndex(m.pages, PageID)
    IN  IF PageID # "" /\ i # 0
        THEN pageInit([m EXCEPT !.navigationStack = Append(@, m.currentPageID),
                                 !.currentPageID = PageID], i, resp)
        ELSE m

\* mainModel.pages[currentIdx].Update(msg): the page's own handling of msg.
pageUpdate(m, currentIdx, msg, sel) ==
    LET kind == m.pages[currentIdx].kind
    IN  CASE kind = "installProcessPage" /\ msg.type = "check" ->
                installUpdate(m, sel)
          [] kind = "diskSelectionPage" -> diskSelectionUpdate(m, msg)
          [] kind = "confirmationPage" -> confirmationUpdate(m, msg)
          [] kind = "userPasswordPage" -> userPasswordUpdate(m, msg)
          [] kind = "sshKeysPage" -> sshKeysUpdate(m, msg)
          [] kind = "genericQuestionPage" -> genericQuestionUpdate(m, currentIdx, msg)
          [] kind = "installOptionsPage" ->
                LET r == installOptionsUpdate(m.optionsCursor, msg)
                IN  [m EXCEPT !.optionsCursor = r.cursor,
                              !.cmds = IF r.cmd = NoMsg THEN @ ELSE @ \cup {r.cmd}]
          [] kind = "customizationPage" ->
                LET r == customizationUpdate(m.cursor, m.options, m.cursorWithIds, msg)
                IN  [m EXCEPT !.cursor = r.cursor,
                              !.cmds = IF r.cmd = NoMsg THEN @ ELSE @ \cup {r.cmd}]
          [] OTHER -> m

\* model.Update as it would be if ctrl+c alone quit at the controller and q
\* went on to the current page.
UpdateResultQuitOnCtrlC(st, msg, resp, sel) ==
    LET m == IF msg.type = "check" THEN [st EXCEPT !.checks = @ - 1] ELSE st
        currentIdx == PageIndex(m.pages, m.currentPageID)
        onInstall == m.pages[currentIdx].kind = "installProcessPage"
    IN  IF currentIdx = 0 THEN m
        ELSE IF onInstall /\ msg.type = "key" /\ m.progress < LastStep THEN m
        ELSE IF onInstall /\ msg.type = "key" /\ m.progress >= LastStep
             THEN [m EXCEPT !.quit = TRUE]
        ELSE IF msg.type = "key" /\ msg.arg = "ctrl+c"
             THEN [m EXCEPT !.quit = TRUE]
        ELSE IF msg.type = "key" /\ msg.arg = "esc" /\ Len(m.navigationStack) > 0
             THEN escBack(m, currentIdx, resp)
        ELSE IF msg.type = "next" /\ currentIdx < Len(m.pages)
             THEN advance(pageUpdate(m, currentIdx, msg, sel), currentIdx, resp)
        ELSE IF msg.type = "goto"
             THEN goToPage(pageUpdate(m, currentIdx, msg, sel), msg.arg, resp)
        ELSE pageUpdate(m, currentIdx, msg, sel)

\* model.Update(msg); resp is what runCustomizationPlugins answers if it is
\* called, sel the case the select of the install page takes if it is reached.
UpdateResult(st, msg, resp, sel) ==
    LET m == IF msg.type = "check" THEN [st EXCEPT !.checks = @ - 1] ELSE st
        currentIdx == PageIndex(m.pages, m.currentPageID)
        onInstall == m.pages[currentIdx].kind = "installProcessPage"
    IN  IF currentIdx = 0 THEN m
        ELSE IF onInstall /\ msg.type = "key" /\ m.progress < LastStep THEN m
        ELSE IF onInstall /\ msg.type = "key" /\ m.progress >= LastStep
             THEN [m EXCEPT !.quit = TRUE]
        ELSE IF msg.type = "key" /\ msg.arg \in {"ctrl+c", "q"}
             THEN [m EXCEPT !.quit = TRUE]
        ELSE IF msg.type = "key" /\ msg.arg = "esc" /\ Len(m.navigationStack) > 0
             THEN escBack(m, currentIdx, resp)
        ELSE IF msg.type = "next" /\ currentIdx < Len(m.pages)
             THEN advance(pageUpdate(m, currentIdx, msg, sel), currentIdx, resp)
        ELSE IF msg.type = "goto"
             THEN goToPage(pageUpdate(m, currentIdx, msg, sel), msg.arg, resp)
        ELSE pageUpdate(m, currentIdx, msg, sel)

\* One message handled by the event loop.  The stack, the registry and the number
\* of installer goroutines are explored up to their bounds.
Update(msg, resp, sel) ==
    \E r \in {UpdateResult(State, msg, resp, sel)} :
        /\ ~quit
        /\ ~crashed
        /\ Len(r.navigationStack) <= MaxStack
        /\ Len(r.pages) <= MaxPages
        /\ r.spawned <= MaxSpawn
        /\ Len(r.sshKeys) <= MaxKeys
        /\ \A value \in {r.userPage.usernameInput, r.userPage.passwordInput,
                          r.sshPage.keyInput} : Len(value) <= MaxInput
        /\ pages' = r.pages
        /\ currentPageID' = r.currentPageID
        /\ navigationStack' = r.navigationStack
        /\ options' = r.options
        /\ cursorWithIds' = r.cursorWithIds
        /\ cursor' = r.cursor
        /\ quit' = r.quit
        /\ spawned' = r.spawned
        /\ progress' = r.progress
        /\ step' = r.step
        /\ checks' = r.checks
        /\ waiter' = r.waiter
        /\ reader' = r.reader
        /\ optionsCursor' = r.optionsCursor
        /\ monitor' = r.monitor
        /\ disk' = r.disk
        /\ username' = r.username
        /\ password' = r.password
        /\ sshKeys' = r.sshKeys
        /\ extraFields' = r.extraFields
        /\ diskCursor' = r.diskCursor
        /\ confCursor' = r.confCursor
        /\ userPage' = r.userPage
        /\ sshPage' = r.sshPage
        /\ crashed' = r.crashed
        /\ confirmedYes' = r.confirmedYes
        /\ received' = r.received
        /\ UNCHANGED <<installer, proc, pipe, readerLine, disks, config>>
        /\ cmds' = r.cmds
        /\ initRan' = r.initRan
        /\ lastPlugin' = r.lastPlugin
        /\ lastMsg' = msg

\* The lists of disks newDiskSelectionPage may find: none, one or two.
DiskLists == { <<>>, <<"/dev/sda">>, <<"/dev/sda", "/dev/sdb">> }

\* What initialModel and the page constructors leave in the fields that the
\* operator's first choices do not touch: no credentials, no keys, the nil
\* map, the cursors on the first entry, empty focused inputs.
newForms ==
    /\ username = <<>>
    /\ password = <<>>
    /\ sshKeys = <<>>
    /\ extraFields = NilMap
    /\ diskCursor = 0
    /\ userPage = [focusedField |-> 0, usernameInput |-> <<>>, passwordInput |-> <<>>,
                   username |-> <<>>, password |-> <<>>]
    /\ sshPage = [mode |-> 0, cursor |-> 0, sshKeys |-> <<>>, keyInput |-> <<>>]
    /\ crashed = FALSE
    /\ received = <<>>
    /\ config = NoConfig

\* initialModel, before any message, on a machine where newDiskSelectionPage
\* finds the disks found.
initialModel(found) ==
    /\ pages = initialPages
    /\ currentPageID = initialPages[1].id
    /\ navigationStack = <<>>
    /\ options = newCustomizationOptions
    /\ cursorWithIds = newCustomizationCursorWithIds
    /\ cursor = 0
    /\ quit = FALSE
    /\ spawned = 0
    /\ progress = 0
    /\ step = steps[1]
    /\ checks = 0
    /\ installer = [start |-> "ok", lines |-> <<>>, exit |-> "ok"]
    /\ proc = "none"
    /\ pipe = <<>>
    /\ waiter = "none"
    /\ reader = "none"
    /\ readerLine = <<>>
    /\ optionsCursor = 0
    /\ monitor = "NotStarted"
    /\ inflight = EmptyBag
    /\ newForms
    /\ disks = found
    /\ disk = ""
    /\ confCursor = 1
    /\ confirmedYes = FALSE
    /\ cmds = {}
    /\ initRan = 0
    /\ lastPlugin = "none"
    /\ lastMsg = NoMsg

\* The initial state on a machine with two disks.
Init == initialModel(<<"/dev/sda", "/dev/sdb">>)

-----------------------------------------------------------------------------
(* Inputs *)

\* The prompt descriptors a plugin may return: a key path that is part of a menu
\* identifier ("user" in "user_password"), one that names a static page outside
\* the menu, and two fresh nested key paths (one of them a yes/no prompt).
Prompts ==
    { Prompt("user", FALSE), Prompt("disk_selection", FALSE),
      Prompt("x.y", FALSE), Prompt("x.z", TRUE) }

RECURSIVE SeqsUpTo(_, _)
SeqsUpTo(S, n) ==
    IF n = 0 THEN {<<>>}
    ELSE LET shorter == SeqsUpTo(S, n - 1)
         IN  shorter \cup {Append(sq, e) : sq \in shorter, e \in S}

Response(yaML, err) == [yaML |-> yaML, err |-> err]

\* A list in which two descriptors are skipped before one is registered.
SkipSkipAdd == << Prompt("user", FALSE), Prompt("user", FALSE), Prompt("x.y", FALSE) >>

\* Every answer of runCustomizationPlugins: a list of up to MaxPrompts
\* descriptors (and SkipSkipAdd), or a transport error, which may come with a
\* partly decoded list.
Responses ==
    {Response(l, FALSE) : l \in SeqsUpTo(Prompts, MaxPrompts) \cup {SkipSkipAdd}}
        \cup {Response(l, TRUE) : l \in SeqsUpTo(Prompts, 1)}

\* The answer handed to a step that never calls the plugins.
NoResponse == Response(<<>>, FALSE)

-----------------------------------------------------------------------------
(* SpecCust: visits of the customization menu.  The operator has chosen a disk,
   confirmed, and stands on the install options page; from there they enter the
   customization menu ("Customize Further"), move in it, and leave it with esc,
   any number of times.  Every entry and every esc runs customizationPage.Init
   on a fresh answer of the plugins. *)

InitCust ==
    /\ pages = initialPages
    /\ currentPageID = "install_options"
    /\ navigationStack = <<"disk_selection", "confirmation">>
    /\ Len(navigationStack) <= MaxStack
    /\ options = newCustomizationOptions
    /\ cursorWithIds = newCustomizationCursorWithIds
    /\ cursor = 0
    /\ quit = FALSE
    /\ spawned = 0
    /\ progress = 0
    /\ step = steps[1]
    /\ checks = 0
    /\ installer = [start |-> "ok", lines |-> <<>>, exit |-> "ok"]
    /\ proc = "none"
    /\ pipe = <<>>
    /\ waiter = "none"
    /\ reader = "none"
    /\ readerLine = <<>>
    /\ optionsCursor = 0
    /\ monitor = "NotStarted"
    /\ inflight = EmptyBag
    /\ newForms
    /\ disks = <<"/dev/sda">>
    /\ disk = "/dev/sda"
    /\ confCursor = 0
    /\ confirmedYes = TRUE
    /\ cmds = {}
    /\ initRan = 0
    /\ lastPlugin = "none"
    /\ lastMsg = GoToPageMsg("install_options")

CustEnter ==
    /\ currentPageID = "install_options"
    /\ \E resp \in Responses : Update(GoToPageMsg("customization"), resp, "default")
    /\ UNCHANGED inflight

CustLeave ==
    /\ currentPageID = "customization"
    /\ \E resp \in Responses : Update(KeyMsg("esc"), resp, "default")
    /\ UNCHANGED inflight

CustKey ==
    /\ currentPageID = "customization"
    /\ \E k \in {"up", "down", "enter"} : Update(KeyMsg(k), NoResponse, "default")
    /\ UNCHANGED inflight

NextCust == CustEnter \/ CustLeave \/ CustKey

SpecCust == InitCust /\ [][NextCust]_vars

-----------------------------------------------------------------------------
(* The goroutines of installProcessPage.Init *)

\* The waiter reaches cmd.Start: the child does not start (the goroutine returns
\* and its deferred close(p.done) runs), or it starts, its output goes to the
\* pipe, and the reader goroutine is started.
WaiterStart ==
    /\ waiter = "start"
    /\ IF installer.start = "fail"
       THEN /\ waiter' = "closed"
            /\ UNCHANGED <<proc, pipe, reader>>
       ELSE /\ waiter' = "wait"
            /\ proc' = "running"
            /\ pipe' = installer.lines
            /\ reader' = "scan"
    /\ UNCHANGED <<readerLine, installer, uiVars, ghostVars>>

\* The child terminates.
ChildExit ==
    /\ proc = "running"
    /\ proc' = "exited"
    /\ UNCHANGED <<pipe, waiter, reader, readerLine, installer, uiVars, ghostVars>>

\* cmd.Wait returns: the waiter goes on to send its final message on p.output.
WaiterWait ==
    /\ waiter = "wait"
    /\ proc = "exited"
    /\ waiter' = "send"
    /\ UNCHANGED <<proc, pipe, reader, readerLine, installer, uiVars, ghostVars>>

\* The waiter's send was received: it returns and the deferred close(p.done) runs.
WaiterClose ==
    /\ waiter = "sent"
    /\ waiter' = "closed"
    /\ UNCHANGED <<proc, pipe, reader, readerLine, installer, uiVars, ghostVars>>

\* A Scan that would hand over the newest unread line.
nextLineNewestFirst(unread) ==
    [line |-> unread[Len(unread)], rest |-> SubSeq(unread, 1, Len(unread) - 1)]

\* A successful Scan on the unread output: the oldest line, the rest left unread.
nextLine(unread) == [line |-> Head(unread), rest |-> Tail(unread)]

\* scanner.Scan in the reader: the next line, or the end of the loop at end of
\* file.  Once cmd.Wait has closed the pipes a Scan that races with it may
\* still get a line or fail, whatever is left unread.
ReaderScan ==
    /\ reader = "scan"
    /\ \/ /\ pipe /= <<>>
          /\ reader' = "sendLine"
          /\ readerLine' = nextLine(pipe).line
          /\ pipe' = nextLine(pipe).rest
       \/ /\ \/ pipe = <<>> /\ proc = "exited"
             \/ PipesClosed(waiter)
          /\ reader' = "exit"
          /\ UNCHANGED <<readerLine, pipe>>
    /\ UNCHANGED <<proc, waiter, installer, uiVars, ghostVars>>

-----------------------------------------------------------------------------
(* SpecInstall: the installation monitor.  The operator stands on the install
   options page and presses keys there; the gotos their commands return are in
   flight until the event loop delivers them, in any order and possibly after
   further keys.  Once the install page is activated it polls the goroutines'
   channels on every CheckInstallerMsg while the installer prints its lines and
   exits, and the operator may press keys. *)

\* Lines an installer may print: one with a step keyword, one with the keywords
\* of two steps, and one that starts like an error message.
InstallerLines ==
    { <<"Formatting", "sda1">>, <<"Formatting", "and", "Partitioning">>,
      <<"ERROR:", "boom">> }

\* An installer that does not start prints nothing and has no exit status.
InstallerPlans ==
    { plan \in [start : {"ok", "fail"}, lines : SeqsUpTo(InstallerLines, MaxLines),
                exit : {"ok", "fail"}] :
        plan.start = "fail" => (plan.lines = <<>> /\ plan.exit = "fail") }

InitInstall ==
    /\ pages = initialPages
    /\ currentPageID = "install_options"
    /\ navigationStack = <<"disk_selection", "confirmation">>
    /\ Len(navigationStack) <= MaxStack
    /\ options = newCustomizationOptions
    /\ cursorWithIds = newCustomizationCursorWithIds
    /\ cursor = 0
    /\ quit = FALSE
    /\ spawned = 0
    /\ progress = 0
    /\ step = steps[1]
    /\ checks = 0
    /\ installer \in InstallerPlans
    /\ proc = "none"
    /\ pipe = <<>>
    /\ waiter = "none"
    /\ reader = "none"
    /\ readerLine = <<>>
    /\ optionsCursor = 0
    /\ monitor = "NotStarted"
    /\ inflight = EmptyBag
    /\ newForms
    /\ disks = <<"/dev/sda">>
    /\ disk = "/dev/sda"
    /\ confCursor = 0
    /\ confirmedYes = TRUE
    /\ cmds = {}
    /\ initRan = 0
    /\ lastPlugin = "none"
    /\ lastMsg = GoToPageMsg("install_options")

\* The navigation messages among the commands an Update returned.
NavCmds(cs) == {c \in cs : c.type \in {"goto", "next"}}

\* The messages in flight once the commands cs have run.
Sent(flying, cs) == flying (+) SetToBag(NavCmds(cs))

\* A key on the install options page: the cursor moves, or enter returns the
\* command whose message goes in flight.  The next key may be handled before
\* that message is delivered.
OptionsKey ==
    /\ currentPageID = "install_options"
    /\ \E k \in {"down", "enter"} : Update(KeyMsg(k), NoResponse, "default")
    /\ inflight' = Sent(inflight, cmds')
    /\ BagCardinality(inflight') <= MaxInflight

\* A navigation message in flight is delivered, in any order.
Deliver ==
    \E msg \in BagToSet(inflight) :
        /\ Update(msg, NoResponse, "default")
        /\ inflight' = Sent(inflight (-) SetToBag({msg}), cmds')

\* A scheduled CheckInstallerMsg is delivered to Update, which hands it to the
\* current page; on the install page the select takes a ready case.
InstallPollCase(sel) ==
    /\ checks > 0
    /\ sel \in SelectReady(State)
    /\ Update(CheckInstallerMsg, NoResponse, sel)
    /\ UNCHANGED inflight

InstallPoll == \E sel \in {"reader", "waiter", "done", "default"} : InstallPollCase(sel)

\* A key is pressed while the install page is shown.
InstallKey ==
    /\ currentPageID = "install_process"
    /\ \E k \in {"enter", "ctrl+c"} : Update(KeyMsg(k), NoResponse, "default")
    /\ UNCHANGED inflight

NextInstall ==
    \/ OptionsKey
    \/ Deliver
    \/ InstallPoll
    \/ InstallKey
    \/ WaiterStart
    \/ ChildExit
    \/ WaiterWait
    \/ WaiterClose
    \/ ReaderScan

SpecInstall == InitInstall /\ [][NextInstall]_vars

-----------------------------------------------------------------------------
(* SpecSession: the wizard from its first page, on a machine with no, one or
   two disks.  The operator presses the cursor keys, enter and esc on whatever
   page is current; the event loop delivers the message of a command before the
   next key.  The plugins answer every visit of the customization menu with one
   text prompt for the key path x.y that has an IfEmpty value. *)

SessionKeys == {"up", "down", "enter", "esc"}

SessionResponses == { Response(<<PromptIfEmpty("x.y", FALSE, <<"v">>)>>, FALSE) }

InitSession == \E found \in DiskLists : initialModel(found)

\* A key is handled on the current page; the message of the command it returns
\* goes in flight.
SessionKey ==
    /\ inflight = EmptyBag
    /\ \E k \in SessionKeys, resp \in SessionResponses : Update(KeyMsg(k), resp, "default")
    /\ inflight' = Sent(inflight, cmds')

\* The navigation message in flight is delivered.
SessionDeliver ==
    \E msg \in BagToSet(inflight), resp \in SessionResponses :
        /\ Update(msg, resp, "default")
        /\ inflight' = Sent(inflight (-) SetToBag({msg}), cmds')

NextSession == SessionKey \/ SessionDeliver

SpecSession == InitSession /\ [][NextSession]_vars

-----------------------------------------------------------------------------
(* SpecForms: the customization menu and the pages under it.  The operator has
   chosen a disk, confirmed and asked to customize further; on the menu, the
   credential page, the SSH keys page and the prompt page they press the cursor
   keys, enter, esc, tab and a character key.  Messages are delivered before
   the next key.  The run starts with the shortest stack the install options
   page can have: the operator pressed esc on the confirmation page before the
   goto of the install options was delivered. *)

FormKeys == {"up", "down", "enter", "esc", "tab", "d"}

FormPages == {"customization", "user_password", "ssh_keys", "x.y"}

\* The state after enter on "Customize Further": the goto of the customization
\* menu is in flight.
InitForms ==
    /\ pages = initialPages
    /\ currentPageID = "install_options"
    /\ navigationStack = <<"disk_selection">>
    /\ Len(navigationStack) <= MaxStack
    /\ options = newCustomizationOptions
    /\ cursorWithIds = newCustomizationCursorWithIds
    /\ cursor = 0
    /\ quit = FALSE
    /\ spawned = 0
    /\ progress = 0
    /\ step = steps[1]
    /\ checks = 0
    /\ installer = [start |-> "ok", lines |-> <<>>, exit |-> "ok"]
    /\ proc = "none"
    /\ pipe = <<>>
    /\ waiter = "none"
    /\ reader = "none"
    /\ readerLine = <<>>
    /\ optionsCursor = 1
    /\ monitor = "NotStarted"
    /\ inflight = SetToBag({GoToPageMsg("customization")})
    /\ newForms
    /\ disks = <<"/dev/sda">>
    /\ disk = "/dev/sda"
    /\ confCursor = 0
    /\ confirmedYes = TRUE
    /\ cmds = {GoToPageMsg("customization")}
    /\ initRan = 0
    /\ lastPlugin = "none"
    /\ lastMsg = KeyMsg("enter")

FormKey ==
    /\ inflight = EmptyBag
    /\ currentPageID \in FormPages
    /\ \E k \in FormKeys, resp \in SessionResponses : Update(KeyMsg(k), resp, "default")
    /\ Len(sshKeys') <= MaxFormKeys
    /\ inflight' = Sent(inflight, cmds')

NextForms == FormKey \/ SessionDeliver

SpecForms == InitForms /\ [][NextForms]_vars

-----------------------------------------------------------------------------
(* SpecFields: the store of genericQuestionPage.Update applied to maps that
   were made.  The operator of SpecForms opens the prompt for x.y and submits
   it; mainModel.extraFields is drawn from maps that hold nothing, a string at
   x, a string at x.z, an older string at x.y, or strings at w and x.z. *)

\* strings.Split(YAMLSection, "."): the key path of a section.
KeyPath(YAMLSection) == SplitChars(Chars(YAMLSection), ".")

FieldMaps ==
    { MakeMap,
      setSections(MakeMap, KeyPath("x"), <<"s">>),
      setSections(MakeMap, KeyPath("x.z"), <<"s">>),
      setSections(MakeMap, KeyPath("x.y"), <<"s">>),
      setSections(setSections(MakeMap, KeyPath("w"), <<"s">>), KeyPath("x.z"), <<"s">>) }

\* The key paths of FieldMaps and of the prompt.
FieldPaths == { KeyPath("x"), KeyPath("w"), KeyPath("x.y"), KeyPath("x.z") }

FieldPages == {"customization", "x.y"}

InitFields ==
    /\ pages = initialPages
    /\ currentPageID = "install_options"
    /\ navigationStack = <<"disk_selection">>
    /\ Len(navigationStack) <= MaxStack
    /\ options = newCustomizationOptions
    /\ cursorWithIds = newCustomizationCursorWithIds
    /\ cursor = 0
    /\ quit = FALSE
    /\ spawned = 0
    /\ progress = 0
    /\ step = steps[1]
    /\ checks = 0
    /\ installer = [start |-> "ok", lines |-> <<>>, exit |-> "ok"]
    /\ proc = "none"
    /\ pipe = <<>>
    /\ waiter = "none"
    /\ reader = "none"
    /\ readerLine = <<>>
    /\ optionsCursor = 1
    /\ monitor = "NotStarted"
    /\ inflight = SetToBag({GoToPageMsg("customization")})
    /\ username = <<>>
    /\ password = <<>>
    /\ sshKeys = <<>>
    /\ extraFields \in FieldMaps
    /\ diskCursor = 0
    /\ userPage = [focusedField |-> 0, usernameInput |-> <<>>, passwordInput |-> <<>>,
                   username |-> <<>>, password |-> <<>>]
    /\ sshPage = [mode |-> 0, cursor |-> 0, sshKeys |-> <<>>, keyInput |-> <<>>]
    /\ crashed = FALSE
    /\ received = <<>>
    /\ config = NoConfig
    /\ disks = <<"/dev/sda">>
    /\ disk = "/dev/sda"
    /\ confCursor = 0
    /\ confirmedYes = TRUE
    /\ cmds = {GoToPageMsg("customization")}
    /\ initRan = 0
    /\ lastPlugin = "none"
    /\ lastMsg = KeyMsg("enter")

FieldKey ==
    /\ inflight = EmptyBag
    /\ currentPageID \in FieldPages
    /\ \E k \in SessionKeys, resp \in SessionResponses :
            Update(KeyMsg(k), resp, "default")
    /\ inflight' = Sent(inflight, cmds')

NextFields == FieldKey \/ SessionDeliver

SpecFields == InitFields /\ [][NextFields]_vars

-----------------------------------------------------------------------------
(* SpecQuit: the wizard from its first page to the forms.  The operator
   presses the cursor keys, enter, tab and a character key on whatever page is
   current, each message being delivered before the next key, and may press q
   or ctrl+c at any moment, a navigation message in flight or not. *)

PlainKeys == {"up", "down", "enter", "tab", "d"}

QuitKeys == {"q", "ctrl+c"}

PlainKey ==
    /\ inflight = EmptyBag
    /\ \E k \in PlainKeys, resp \in SessionResponses : Update(KeyMsg(k), resp, "default")
    /\ inflight' = Sent(inflight, cmds')

QuitKey ==
    /\ \E k \in QuitKeys, resp \in SessionResponses : Update(KeyMsg(k), resp, "default")
    /\ inflight' = Sent(inflight, cmds')

NextQuit == PlainKey \/ SessionDeliver \/ QuitKey

SpecQuit == InitSession /\ [][NextQuit]_vars

-----------------------------------------------------------------------------
(* SpecKeyList: the operator of SpecForms who goes to the SSH keys page only,
   adds keys of one character, d or v, walks over the list and deletes keys
   with d. *)

KeyListKeys == {"up", "down", "enter", "esc", "d", "v"}

KeyListPages == {"customization", "ssh_keys"}

KeyListKey ==
    /\ inflight = EmptyBag
    /\ currentPageID \in KeyListPages
    /\ \E k \in KeyListKeys, resp \in SessionResponses :
            Update(KeyMsg(k), resp, "default")
    /\ inflight' = Sent(inflight, cmds')

NextKeyList == KeyListKey \/ SessionDeliver

SpecKeyList == InitForms /\ [][NextKeyList]_vars

-----------------------------------------------------------------------------
(* SpecRace: the operator on the install options page who presses down, enter,
   esc and q on whatever page is current without waiting for the event loop:
   the messages of the commands are in flight until they are delivered, in any
   order and possibly after further keys. *)

RaceKeys == {"down", "enter", "esc", "q"}

InitRace == InitInstall /\ installer = [start |-> "ok", lines |-> <<>>, exit |-> "ok"]

RaceKey ==
    /\ \E k \in RaceKeys : Update(KeyMsg(k), NoResponse, "default")
    /\ inflight' = Sent(inflight, cmds')
    /\ BagCardinality(inflight') <= MaxInflight

NextRace == RaceKey \/ Deliver

SpecRace == InitRace /\ [][NextRace]_vars

-----------------------------------------------------------------------------
(* SpecConfig: NewInstallConfig applied to a session state.  The device, the
   user name, the password, the key list and the extra fields are drawn from
   small sets, complete and incomplete credential pairs among them. *)

InitConfig ==
    /\ pages = initialPages
    /\ currentPageID = initialPages[1].id
    /\ navigationStack = <<>>
    /\ options = newCustomizationOptions
    /\ cursorWithIds = newCustomizationCursorWithIds
    /\ cursor = 0
    /\ quit = FALSE
    /\ spawned = 0
    /\ progress = 0
    /\ step = steps[1]
    /\ checks = 0
    /\ installer = [start |-> "ok", lines |-> <<>>, exit |-> "ok"]
    /\ proc = "none"
    /\ pipe = <<>>
    /\ waiter = "none"
    /\ reader = "none"
    /\ readerLine = <<>>
    /\ optionsCursor = 0
    /\ monitor = "NotStarted"
    /\ inflight = EmptyBag
    /\ disk \in {"", "/dev/sda", "/dev/sdb"}
    /\ username \in SeqsUpTo({"d", "v"}, MaxInput)
    /\ password \in SeqsUpTo({"d", "v"}, MaxInput)
    /\ sshKeys \in SeqsUpTo({<<"d">>}, MaxKeys)
    /\ extraFields \in {NilMap, setSections(MakeMap, <<"x", "y">>, <<"v">>)}
    /\ diskCursor = 0
    /\ userPage = [focusedField |-> 0, usernameInput |-> username,
                   passwordInput |-> password,
                   username |-> username, password |-> password]
    /\ sshPage = [mode |-> 0, cursor |-> Len(sshKeys), sshKeys |-> sshKeys,
                  keyInput |-> <<>>]
    /\ crashed = FALSE
    /\ received = <<>>
    /\ config = NoConfig
    /\ disks = <<"/dev/sda", "/dev/sdb">>
    /\ confCursor = 1
    /\ confirmedYes = FALSE
    /\ cmds = {}
    /\ initRan = 0
    /\ lastPlugin = "none"
    /\ lastMsg = NoMsg

\* NewInstallConfig(mainModel) is built.
BuildConfig ==
    /\ ~config.built
    /\ config' = NewInstallConfig(State)
    /\ UNCHANGED <<pages, currentPageID, navigationStack, options,
                   cursorWithIds, cursor, quit, spawned, lastMsg, initRan,
                   cmds, lastPlugin, progress, step, checks, installer, proc,
                   pipe, waiter, reader, readerLine, optionsCursor, monitor,
                   inflight, disk, username, password, sshKeys, extraFields,
                   disks, diskCursor, confCursor, userPage, sshPage, crashed,
                   confirmedYes, received>>

NextConfig == BuildConfig

SpecConfig == InitConfig /\ [][NextConfig]_vars

-----------------------------------------------------------------------------
(* SpecNav: the navigation controller under every sequence of advance, goto and
   back messages.  A goto may name a registered page, the current page, no page
   at all or the empty identifier; the plugins answer each visit of the
   customization page with nothing or with one descriptor. *)

NavTargets == {"", "nope", "customization", "install_process", "disk_selection",
               "x.y"}

NavResponses ==
    { NoResponse,
      Response(<<Prompt("x.y", FALSE)>>, FALSE),
      Response(<<Prompt("disk_selection", FALSE)>>, FALSE) }

NavAdvance ==
    /\ ~quit
    /\ \E resp \in NavResponses : Update(NextPageMsg, resp, "default")
    /\ UNCHANGED inflight

NavGoTo ==
    /\ ~quit
    /\ \E id \in NavTargets, resp \in NavResponses :
            Update(GoToPageMsg(id), resp, "default")
    /\ UNCHANGED inflight

NavBack ==
    /\ ~quit
    /\ \E resp \in NavResponses : Update(KeyMsg("esc"), resp, "default")
    /\ UNCHANGED inflight

NextNav == NavAdvance \/ NavGoTo \/ NavBack

SpecNav == Init /\ [][NextNav]_vars

-----------------------------------------------------------------------------
(* Navigation: C1 - C4 *)

\* The registry position of the current page, as Update finds it on entry.
CurrentIdx == PageIndex(pages, currentPageID)

\* Update swallows every key: the current page is the install page.
KeysHijacked == pages[CurrentIdx].kind = "installProcessPage"

\* The step handled a back key that Update acted on: the stack was non-empty.
BackPerformed ==
    lastMsg' = KeyMsg("esc") /\ Len(navigationStack) > 0 /\ ~KeysHijacked

\* The step handled an advance or a goto that Update carried out: an advance with
\* a next page in the registry, a goto of a non-empty registered identifier.
ForwardPerformed ==
    \/ lastMsg'.type = "next" /\ CurrentIdx < Len(pages)
    \/ lastMsg'.type = "goto" /\ lastMsg'.arg # ""
          /\ PageIndex(pages, lastMsg'.arg) # 0

BackOnEmptyStackIsNoOp ==
    (lastMsg' = KeyMsg("esc") /\ Len(navigationStack) = 0)
        => (currentPageID' = currentPageID /\ navigationStack' = navigationStack)

\* C1 as stated: the stack depth is the number of forward transitions that changed
\* the current page minus the number of backs performed, and a back on an empty
\* stack changes nothing.  The depth is 0 at the start, so the equation holds in
\* every state exactly when every step changes the depth by (1 if the step is a
\* forward transition that changed the current page) - (1 if it is a performed
\* back).
C1_DepthCountsPageChanges ==
    [][ /\ Len(navigationStack') - Len(navigationStack) =
             (IF lastMsg'.type \in {"next", "goto"} /\ currentPageID' # currentPageID
              THEN 1 ELSE 0)
             - (IF BackPerformed THEN 1 ELSE 0)
        /\ BackOnEmptyStackIsNoOp ]_vars

\* C1 amended: the stack depth is the number of forward transitions carried out
\* (an advance with a next page in the registry, a goto of a registered
\* identifier, the current page's own included) minus the number of backs
\* performed, and a back on an empty stack changes nothing.  Stated per step, as
\* above.
C1_DepthCountsForwardTransitions ==
    [][ /\ Len(navigationStack') - Len(navigationStack) =
             (IF ForwardPerformed THEN 1 ELSE 0) - (IF BackPerformed THEN 1 ELSE 0)
        /\ BackOnEmptyStackIsNoOp ]_vars

\* A goto of the current page's own identifier was carried out: the identifier
\* was pushed and the page did not change.
C1_Witness ==
    /\ lastMsg.type = "goto"
    /\ lastMsg.arg = currentPageID
    /\ Len(navigationStack) >= 2
    /\ navigationStack[Len(navigationStack)] = currentPageID
    /\ initRan = CurrentIdx

\* C2: a back key handled with a non-empty stack removes exactly the top of the
\* stack, makes it the current page, and runs the Init of that page.
C2_BackReactivatesPoppedPage ==
    [][ BackPerformed =>
          /\ navigationStack' = SubSeq(navigationStack, 1, Len(navigationStack) - 1)
          /\ currentPageID' = navigationStack[Len(navigationStack)]
          /\ initRan' = PageIndex(pages', currentPageID') ]_vars

\* C3: a goto whose identifier is empty or matches no registered page changes
\* neither the current page nor the stack nor the registry, and runs no Init.
C3_UnknownGotoIsNoOp ==
    [][ (lastMsg'.type = "goto"
            /\ (lastMsg'.arg = "" \/ PageIndex(pages, lastMsg'.arg) = 0))
        => /\ currentPageID' = currentPageID
           /\ navigationStack' = navigationStack
           /\ pages' = pages
           /\ initRan' = 0
           /\ spawned' = spawned ]_vars

\* An unknown goto was handled away from the entry page.
C3_Witness ==
    /\ lastMsg = GoToPageMsg("nope")
    /\ PageIndex(pages, "nope") = 0
    /\ Len(navigationStack) > 0
    /\ currentPageID # "disk_selection"

\* C4: an advance pushes the current identifier once, makes the page right after
\* the current one in the registry the current page and runs its Init; on the last
\* page of the registry it changes neither the current page nor the stack.
C4_AdvanceActivatesNextPage ==
    [][ lastMsg'.type = "next" =>
          IF CurrentIdx < Len(pages)
          THEN /\ navigationStack' = Append(navigationStack, currentPageID)
               /\ PageIndex(pages', currentPageID') = CurrentIdx + 1
               /\ initRan' = CurrentIdx + 1
          ELSE /\ currentPageID' = currentPageID
               /\ navigationStack' = navigationStack ]_vars

-----------------------------------------------------------------------------
(* Customization menu: C5 - C9 *)

PageIDs(ps) == {ps[i].id : i \in 1..Len(ps)}

\* The registry and the menu, as customizationPage.Init reads and writes them.
MenuState == [pages |-> pages, options |-> options, cursorWithIds |-> cursorWithIds]

\* C5: no two pages of the registry have the same identifier.
C5_PageIDsUnique ==
    \A i, j \in 1..Len(pages) : pages[i].id = pages[j].id => i = j

\* C6: Init run a second time on the same descriptor list leaves the registry and
\* the menu as the first run left them, whatever the state the first run started
\* in.
C6_InitIdempotent ==
    \A resp \in Responses :
        \A first \in {customizationInit(MenuState, resp)} :
            customizationInit(first, resp) = first

\* The page a menu label was created for: the static entries of
\* newCustomizationPage, "Configure <key path>" for a descriptor.
OptionTarget(label) ==
    CASE label = <<"Finish Customization">> -> "install_process"
      [] label = <<"User & Password">> -> "user_password"
      [] label = <<"SSH Keys">> -> "ssh_keys"
      [] OTHER -> label[2]

\* C7: every menu entry points at its page: enter with the cursor on option i
\* returns a goto of the identifier of the page option i was created for, and
\* that identifier is registered.
C7_MenuEntriesPointAtTheirPages ==
    \A i \in 0..(Len(options) - 1) :
        /\ customizationUpdate(i, options, cursorWithIds, KeyMsg("enter")).cmd
              = GoToPageMsg(OptionTarget(options[i + 1]))
        /\ OptionTarget(options[i + 1]) \in PageIDs(pages)

\* C8: Init appends a page and a menu entry for every descriptor whose identifier
\* is not the identifier of a registered page.
C8_UnregisteredDescriptorsAreRegistered ==
    \A resp \in Responses :
        ~resp.err =>
            \A after \in {customizationInit(MenuState, resp)} :
                \A k \in 1..Len(resp.yaML) :
                    LET id == idFromSection(resp.yaML[k])
                    IN  id \notin PageIDs(pages) =>
                          /\ id \in PageIDs(after.pages)
                          /\ \E o \in 1..Len(after.options) :
                                after.options[o] = ConfigureLabel(id)

\* C9: when the plugins answer with a transport error or an empty list, Init
\* leaves the registry and the menu unchanged and the wizard goes on: it does not
\* quit, and the step that entered the customization page ends on it.
C9_PluginFailureChangesNothing ==
    [][ lastPlugin' \in {"error", "empty"} =>
          /\ pages' = pages
          /\ options' = options
          /\ cursorWithIds' = cursorWithIds
          /\ quit' = FALSE
          /\ (lastMsg'.type = "goto" => currentPageID' = "customization") ]_vars

\* The plugins failed on a visit of the menu made after a page had been registered.
C9_Witness ==
    /\ lastPlugin = "error"
    /\ lastMsg = GoToPageMsg("customization")
    /\ currentPageID = "customization"
    /\ Len(pages) > Len(initialPages)


-----------------------------------------------------------------------------
(* C10 *)

\* C10: the progress cursor of the install page never decreases.
C10_ProgressNeverDecreases == [][progress' >= progress]_vars

-----------------------------------------------------------------------------
(* Installation monitor: C11 - C20 *)

\* C11: the progress cursor is always an index of the step sequence, and it is
\* 0 until the install page is activated.
C11_ProgressIsStepIndex ==
    /\ 0 <= progress
    /\ progress <= Len(steps) - 1
    /\ (monitor = "NotStarted" => progress = 0)

\* A step notification moved the cursor to the last index while the monitor
\* was still running.
C11_Witness ==
    /\ progress = Len(steps) - 1
    /\ monitor = "Running"
    /\ lastMsg = CheckInstallerMsg
    /\ checks > 0

\* The installer starts, prints no line that reads as an error notification,
\* and exits with status 0.
NormalExit ==
    /\ installer.start = "ok"
    /\ installer.exit = "ok"
    /\ \A k \in 1..Len(installer.lines) : ~HasPrefix(installer.lines[k], ErrorPrefix)

\* The monitor shows the terminal step and polls no more.
Completed ==
    /\ progress = Len(steps) - 1
    /\ step = steps[Len(steps)]
    /\ checks = 0

\* C12: when the installer exits normally, the activated monitor reaches
\* Completed under fair scheduling of the poll loop and the goroutines.  Stated
\* as what a finite run refutes: the running monitor is never left where no
\* poll and no goroutine can take it to Completed; until it is Completed (or
\* the program has quit) a check message is pending or a navigation message is
\* still in flight.
C12_NormalExitCompletes ==
    (NormalExit /\ monitor = "Running" /\ ~quit)
        => (Completed \/ checks > 0 \/ inflight # EmptyBag)

\* The fixed priority order of the keyword mappings and the step each announces.
KeywordPriority ==
    << <<"Partitioning">>, <<"Formatting">>, <<"Installing base system">>,
       <<"Configuring bootloader">>, <<"Finalizing">>, <<"Installation complete">>,
       <<"Success">> >>

AnnouncedStep ==
    << <<"Partitioning disk...">>, <<"Formatting partitions...">>,
       <<"Installing base system...">>, <<"Configuring bootloader...">>,
       <<"Finalizing installation...">>, <<"Installation complete!">>,
       <<"Installation complete!">> >>

\* notification is the step notification of the first mapping, in priority
\* order, whose keyword occurs in line.
IsFirstMatch(line, notification) ==
    \E k \in 1..Len(KeywordPriority) :
        /\ SeqContains(line, KeywordPriority[k])
        /\ \A j \in 1..(k - 1) : ~SeqContains(line, KeywordPriority[j])
        /\ notification = <<"STEP:">> \o AnnouncedStep[k]

\* C13: after a line the reader sends at most one step notification: none when
\* the line has no keyword, otherwise the one of the first mapping in priority
\* order whose keyword the line contains; then it reads the next line.
C13_FirstKeywordDecides ==
    [][ /\ (reader = "sendLine" /\ reader' # reader) =>
              IF \E k \in 1..Len(KeywordPriority) :
                     SeqContains(readerLine, KeywordPriority[k])
              THEN /\ reader' = "sendStep"
                   /\ readerLine' = readerLine
                   /\ IsFirstMatch(readerLine, classifyLine(readerLine))
              ELSE reader' = "scan"
        /\ (reader = "sendStep" /\ reader' # reader) => reader' = "scan" ]_vars

\* The reader is sending the notification for a line with two keywords.
C13_Witness ==
    /\ reader = "sendStep"
    /\ Cardinality({k \in 1..Len(KeywordPriority) :
                        SeqContains(readerLine, KeywordPriority[k])}) >= 2

\* The step is a poll of the running monitor that receives an error notification.
ErrorHandled == monitor = "Running" /\ monitor' = "Failed"

\* C14: a poll that receives an error notification records the error text as
\* the current step, leaves the cursor where it is and issues no further check
\* message; from then on the cursor and the current step never change.
C14_FailedIsTerminal ==
    [][ /\ ErrorHandled =>
              /\ HasPrefix(step', <<"Error: ">>)
              /\ progress' = progress
              /\ checks' = checks - 1
              /\ CheckInstallerMsg \notin cmds'
        /\ monitor = "Failed" => (progress' = progress /\ step' = step) ]_vars

\* C15: when the pipes cannot be created or the installer cannot be started,
\* the cursor stays at 0 and the current step is never the terminal one.
C15_SpawnFailureShowsNoProgress ==
    installer.start = "fail" =>
        (progress = 0 /\ step # <<"Installation complete!">>)

\* C16: while the monitor is Running every handled check message is followed by
\* exactly one check message, so polling does not stop before a terminal state:
\* as long as the monitor is Running a check message is scheduled, one for each
\* activation.
C16_PollingContinuesWhileRunning ==
    monitor = "Running" => (checks >= 1 /\ checks <= spawned)

\* C17: while the install page is current and its cursor is below the last
\* index, no key and no message changes the current page or the navigation
\* stack.
C17_InstallPageCannotBeLeft ==
    [][ (currentPageID = "install_process" /\ progress < Len(steps) - 1)
          => (currentPageID' = currentPageID /\ navigationStack' = navigationStack) ]_vars

\* C18: while the monitor is Running the interrupt key is not swallowed: the
\* step that handles it on the install page leaves the monitor in another state
\* than before (the abort confirmation is up, or the program has quit).
C18_InterruptKeyIsNotSwallowed ==
    [][ (currentPageID = "install_process" /\ monitor = "Running"
            /\ Update(KeyMsg("ctrl+c"), NoResponse, "default"))
          => <<pages, currentPageID, navigationStack, options, cursorWithIds, cursor,
               quit, spawned, progress, step, checks, optionsCursor, monitor>>'
                # <<pages, currentPageID, navigationStack, options, cursorWithIds,
                    cursor, quit, spawned, progress, step, checks, optionsCursor,
                    monitor>> ]_vars

\* C19: the installer is spawned at most once in a session.  Every run of
\* installProcessPage.Init starts one waiter goroutine, which starts one child,
\* one reader, and closes p.done when it returns: at most one run of Init.
C19_InstallerSpawnedOnce == spawned <= 1

\* C20: the reader never waits for the UI loop: whenever it has a line or a
\* notification to deliver, a step of the goroutines alone, without a poll of
\* the UI, takes it on.
C20_ReaderNeverWaitsForUI ==
    reader \in {"sendLine", "sendStep"} =>
        ENABLED ( /\ \/ WaiterStart
                     \/ ChildExit
                     \/ WaiterWait
                     \/ WaiterClose
                     \/ ReaderScan
                  /\ reader' # reader )

-----------------------------------------------------------------------------
(* Session state and the road to the installer: C21 - C30 *)

\* The step notifications the reader derives from the lines ls, in the order
\* of the lines.
Notifications(ls) ==
    SelectSeq([i \in 1..Len(ls) |-> classifyLine(ls[i])], LAMBDA n : n # <<>>)

RECURSIVE IsSubsequence(_, _)
\* a is b with some elements left out, the order kept.
IsSubsequence(a, b) ==
    IF a = <<>> THEN TRUE
    ELSE IF b = <<>> THEN FALSE
    ELSE IF Head(a) = Head(b) THEN IsSubsequence(Tail(a), Tail(b))
    ELSE IsSubsequence(a, Tail(b))

HandlerKind == pages[CurrentIdx].kind

\* C22: a step that changes the target device is a step of the disk selection
\* page, one that changes the user name or the password a step of the
\* credential page, one that changes the SSH key list a step of the SSH keys
\* page, one that changes the extra fields a step of a generated prompt page.
C22_FieldsWrittenByTheirOwners ==
    [][ /\ disk' # disk => HandlerKind = "diskSelectionPage"
        /\ (username' # username \/ password' # password)
                => HandlerKind = "userPasswordPage"
        /\ sshKeys' # sshKeys => HandlerKind = "sshKeysPage"
        /\ extraFields' # extraFields => HandlerKind = "genericQuestionPage" ]_vars

\* C23: a step that changes mainModel.disk, username, password, sshKeys or
\* extraFields handles an enter key.
C23_SessionChangesOnEnterOnly ==
    [][ sessionVars' # sessionVars => lastMsg' = KeyMsg("enter") ]_vars

\* The credential pair is empty or complete.
PairComplete(name, pass) == (name = <<>>) <=> (pass = <<>>)

\* C24: user name and password are both empty or both non-empty in every
\* state; a step that changes one of them stores both inputs, both non-empty;
\* enter on the credential page with an empty input changes neither the
\* session state nor the current page.
C24_CredentialPairComplete ==
    /\ PairComplete(username, password)
    /\ [][ /\ PairComplete(username', password')
           /\ (username' # username \/ password' # password)
                => /\ username' = userPage.usernameInput
                   /\ password' = userPage.passwordInput
                   /\ username' # <<>> /\ password' # <<>>
           /\ ( /\ HandlerKind = "userPasswordPage"
                /\ Update(KeyMsg("enter"), NoResponse, "default")
                /\ (userPage.usernameInput = <<>> \/ userPage.passwordInput = <<>>) )
                => UNCHANGED <<sessionVars, currentPageID>> ]_vars

\* Credentials are stored, after an enter with the password input still empty
\* had stored nothing.
C24_Witness ==
    /\ username # <<>>
    /\ password # <<>>
    /\ userPage.focusedField = 1

\* C25: the configuration built from a session state has install.device equal
\* to the device; with a user name and a password both non-empty it has
\* exactly one stage entry, the user block with the password and the keys,
\* under "initramfs" when the key list is empty and under "network" when it is
\* not, and no nousers flag; otherwise it has no stage entry and
\* install.nousers is true.
C25_ConfigFollowsSession ==
    config.built =>
        /\ config.Install.device = disk
        /\ IF username # <<>> /\ password # <<>>
           THEN /\ DOMAIN config.Stages =
                        {IF sshKeys = <<>> THEN "initramfs" ELSE "network"}
                /\ \A stage \in DOMAIN config.Stages :
                        /\ Len(config.Stages[stage]) = 1
                        /\ config.Stages[stage][1].users.kairos.passwd = password
                        /\ config.Stages[stage][1].users.kairos.ssh_authorized_keys
                                = sshKeys
                /\ "nousers" \notin DOMAIN config.Install
           ELSE /\ DOMAIN config.Stages = {}
                /\ "nousers" \in DOMAIN config.Install
                /\ config.Install.nousers = TRUE

\* A configuration was built for credentials with an SSH key.
C25_Witness ==
    /\ config.built
    /\ username # <<>>
    /\ password # <<>>
    /\ sshKeys # <<>>

\* The value a prompt page submits on enter: its input, or IfEmpty when the
\* input is empty.
EffectiveValue(g) ==
    IF g.genericInput = <<>> /\ g.section.IfEmpty # <<>>
    THEN g.section.IfEmpty ELSE g.genericInput

RECURSIVE Lookup(_, _)
\* What the map mp holds at the nested key path, NilMap when it holds nothing.
Lookup(mp, path) ==
    IF ~IsMap(mp) \/ Head(path) \notin DOMAIN mp.entries THEN NilMap
    ELSE IF Len(path) = 1 THEN mp.entries[Head(path)]
    ELSE Lookup(mp.entries[Head(path)], Tail(path))

\* C26: enter on a generated text-prompt page with a non-empty effective value
\* completes without a panic, leaves that value in mainModel.extraFields at
\* the nested key path of the page, and returns the goto of the customization
\* menu.
C26_PromptAnswerIsStored ==
    [][ ( /\ HandlerKind = "genericQuestionPage"
          /\ EffectiveValue(pages[CurrentIdx]) # <<>>
          /\ Update(KeyMsg("enter"), NoResponse, "default") )
        => /\ ~crashed'
           /\ Lookup(extraFields', SplitChars(Chars(currentPageID), "."))
                = StringValue(EffectiveValue(pages[CurrentIdx]))
           /\ GoToPageMsg("customization") \in cmds' ]_vars

\* C27: once installProcessPage.Init has run, no step changes mainModel.disk,
\* username, password, sshKeys or extraFields, whatever keys are pressed and in
\* whatever order the messages in flight are delivered.
C27_SessionFrozenAfterActivation ==
    [][ spawned >= 1 => UNCHANGED sessionVars ]_vars

\* Some page of the registry has the identifier id.
Registered(ps, id) == PageIndex(ps, id) # 0

\* The current page identifier and every identifier on the stack are registered.
NavigationRegistered(ps, current, stack) ==
    /\ Registered(ps, current)
    /\ \A i \in 1..Len(stack) : Registered(ps, stack[i])

\* C28: in every state the current page identifier and every identifier on
\* the navigation stack name a page of the registry, and a step leaves the
\* pages of the registry where they are, with new ones at the end only.
C28_NavigationNamesRegisteredPages ==
    /\ NavigationRegistered(pages, currentPageID, navigationStack)
    /\ [][ /\ NavigationRegistered(pages', currentPageID', navigationStack')
           /\ Len(pages') >= Len(pages)
           /\ \A i \in 1..Len(pages) : pages'[i].id = pages[i].id ]_vars

\* A page registered by the customization menu is current and the stack is
\* not empty.
C28_Witness ==
    /\ Len(pages) > Len(initialPages)
    /\ currentPageID = pages[Len(pages)].id
    /\ Len(navigationStack) > 0

\* C29: a step that activates the install process page (the installer is
\* spawned) is taken only with a non-empty target device in the session.
C29_InstallOnlyWithDevice ==
    [][ spawned' > spawned => (disk # "" /\ disk' # "") ]_vars

\* C30: whenever the install process page has been activated, enter was
\* pressed before on the confirmation page with "Yes, continue" selected.
C30_ActivationAfterConfirmation == spawned >= 1 => confirmedYes

\* The install process page has been activated from a session that started
\* on the disk selection page.
C30_Witness == spawned >= 1 /\ confirmedYes /\ currentPageID = "install_process"

-----------------------------------------------------------------------------
(* Confirmation default, keys on the install page, key lists and prompt
   answers: C31 - C38 *)

\* C31: a step that makes the confirmation page the current page, by a goto or
\* by going back, leaves its cursor on "No, go back" (index 1).
C31_ConfirmationOpensOnNo ==
    [][ (currentPageID # "confirmation" /\ currentPageID' = "confirmation")
            => confCursor' = 1 ]_vars

\* The keys an operator presses.
Keys == {"up", "down", "enter", "esc", "tab", "d", "q", "ctrl+c"}

\* C32: once the installer has been started, a key handled with the progress
\* cursor on the last index quits the application, and a key handled with the
\* cursor below it neither quits the application nor changes the install page.
C32_KeysQuitOnlyAfterInstall ==
    [][ \A k \in Keys :
            (spawned >= 1 /\ Update(KeyMsg(k), NoResponse, "default"))
                => IF progress >= LastStep
                   THEN quit'
                   ELSE ~quit' /\ UNCHANGED <<progress, step, monitor, checks>> ]_vars

\* The monitor has handled an error notification and the progress cursor is
\* below the last index.
FailedBelowLast == monitor = "Failed" /\ progress < LastStep

\* C33: once the monitor has handled an error notification with the progress
\* cursor below the last index, the failed state stays, and every key handled
\* in it (ctrl+c and q included) leaves the application running and changes no
\* state.
C33_FailedScreenSwallowsKeys ==
    [][ FailedBelowLast =>
            /\ FailedBelowLast'
            /\ \A k \in Keys :
                    Update(KeyMsg(k), NoResponse, "default")
                        => (~quit' /\ UNCHANGED <<uiVars, goroutineVars>>) ]_vars

\* The installer started and exits with an error status.
FailedRun == installer.start = "ok" /\ installer.exit = "fail"

\* C34: when the installer exits with an error, p.done is closed only after
\* the monitor has handled an error notification, and no step brings the
\* progress cursor to the last index.
C34_FailedRunNeverCompletes ==
    [][ FailedRun =>
            /\ (waiter # "closed" /\ waiter' = "closed") => monitor = "Failed"
            /\ progress' = LastStep => progress = LastStep ]_vars

\* C35: the key list of the SSH keys page equals mainModel.sshKeys element
\* for element, and the cursor of the page is between 0 and the number of
\* keys.
C35_KeyListsAgree ==
    /\ sshPage.sshKeys = sshKeys
    /\ sshPage.cursor >= 0
    /\ sshPage.cursor <= Len(sshKeys)

\* d has just removed the second of two different keys.
C35_Witness ==
    /\ lastMsg = KeyMsg("d")
    /\ currentPageID = "ssh_keys"
    /\ sshPage.mode = 0
    /\ sshKeys = << <<"v">> >>
    /\ sshPage.cursor = 0

\* C36: a character key handled by a generated text-prompt page is appended to
\* the input of the page, and enter with a non-empty input stores that input
\* at the key path of the page.
C36_TypedTextIsTheAnswer ==
    [][ HandlerKind = "genericQuestionPage" =>
            /\ \A k \in TypedChars :
                    Update(KeyMsg(k), NoResponse, "default")
                        => pages'[CurrentIdx].genericInput
                                = Append(pages[CurrentIdx].genericInput, k)
            /\ ( /\ pages[CurrentIdx].genericInput # <<>>
                 /\ Update(KeyMsg("enter"), NoResponse, "default") )
                    => Lookup(extraFields', SplitChars(Chars(currentPageID), "."))
                            = StringValue(pages[CurrentIdx].genericInput) ]_vars

\* v is a string stored in a map.
IsString(v) == "str" \in DOMAIN v

OnlyQuits ==
    /\ quit'
    /\ UNCHANGED <<pages, currentPageID, navigationStack, options, cursorWithIds,
                   cursor, spawned, progress, step, checks, optionsCursor, monitor,
                   sessionVars, formVars, received, config, goroutineVars>>
    /\ cmds' = {}

\* C38: q or ctrl+c handled while a page other than the install process page
\* is current quits the application and changes nothing else: the page does
\* not get the key, a text input with the focus included.
C38_QuitKeysStopAtController ==
    [][ \A k \in QuitKeys :
            (HandlerKind # "installProcessPage" /\ Update(KeyMsg(k), NoResponse, "default"))
                => OnlyQuits ]_vars

\* q quit the application while the SSH key input had the focus with a
\* character typed into it.
C38_Witness ==
    /\ quit
    /\ lastMsg = KeyMsg("q")
    /\ currentPageID = "ssh_keys"
    /\ sshPage.mode = 1
    /\ sshPage.keyInput # <<>>

=============================================================================
